---- MODULE Spec2Model ----
(***************************************************************************)
(* PlasmaTrader: the simulated execution of orders against the trading     *)
(* ledger (plasmatrader_core/paper_trader.py) and the dashboard that reads *)
(* the ledger (plasmatrader_core/cli_monitor.py).                          *)
(*                                                                         *)
(* Python floats are modelled as exact rationals <<numerator, denominator>> *)
(* in lowest terms with a positive denominator; rounding of IEEE doubles   *)
(* is not modelled.  Timestamps and the historical price series, which     *)
(* execute_order copies and never reads, are left out of the ledger.       *)
(***************************************************************************)
EXTENDS Integers, Sequences, FiniteSets, TLC

VARIABLES
    heap,       \* the TradingState objects, by reference (index)
    cur,        \* the caller's reference to the current ledger
    stack,      \* the frames of execute_order, innermost last
    pc,         \* position of the engine: idle, sleep, filled, returned
    ret,        \* the reference execute_order returned
    published,  \* history: the ledgers the caller has published, in order
    log,        \* history: one record per finished execute_order call
    seen,       \* the ledger the dashboard last read, as a sequence of 0 or 1
    slip,       \* one evaluation of _calculate_slippage: inputs and result
    sizer,      \* one call of calculate_position_size: inputs and result
    fusion,     \* one call of predict_multi_timeframe: pool, tasks, signal
    single      \* the ChronosPredictor singleton and the threads creating it

ledger_vars == <<heap, cur, stack, pc, ret, published, log, seen>>
other_vars == <<slip, sizer, fusion, single>>
vars == <<heap, cur, stack, pc, ret, published, log, seen,
          slip, sizer, fusion, single>>

\* ------------------------------------------------------------ bounds
MaxOrders == 2

\* ------------------------------------------------------------ rationals
Abs(x) == IF x < 0 THEN -x ELSE x

RECURSIVE GCD(_, _)
GCD(a, b) == IF b = 0 THEN a ELSE GCD(b, a % b)

Rat(n, d) ==
    LET s == IF d < 0 THEN -1 ELSE 1
        g == GCD(Abs(n), Abs(d))
    IN  <<(s * n) \div g, (s * d) \div g>>

R(n) == <<n, 1>>
Zero == R(0)
One == R(1)

RNeg(a) == <<-a[1], a[2]>>
RAdd(a, b) ==
    LET g == GCD(a[2], b[2])
    IN  Rat(a[1] * (b[2] \div g) + b[1] * (a[2] \div g), (a[2] \div g) * b[2])
RSub(a, b) == RAdd(a, RNeg(b))
RMul(a, b) ==
    LET g1 == GCD(Abs(a[1]), b[2])
        g2 == GCD(Abs(b[1]), a[2])
    IN  Rat((a[1] \div g1) * (b[1] \div g2), (a[2] \div g2) * (b[2] \div g1))
RInv(b) == IF b[1] < 0 THEN <<-b[2], -b[1]>> ELSE <<b[2], b[1]>>
RDiv(a, b) == RMul(a, RInv(b))
RSign(a) == IF a[1] < 0 THEN -1 ELSE IF a[1] = 0 THEN 0 ELSE 1
RLt(a, b) == RSign(RSub(a, b)) < 0
RLe(a, b) == RSign(RSub(a, b)) <= 0
RMin(a, b) == IF RLe(a, b) THEN a ELSE b
RMax(a, b) == IF RLe(b, a) THEN a ELSE b

\* ------------------------------------------------------------ configuration
TAKER_FEE == Rat(4, 10000)
SLIPPAGE_FACTOR == Rat(1, 10)

\* ------------------------------------------------------------ market data
\* MarketMicrostructure.calculate_relative_spread: the spread in basis points
calculate_relative_spread(ask, bid) ==
    IF RLe(ask, Zero) \/ RLe(bid, Zero) THEN Zero
    ELSE LET mid_price == RDiv(RAdd(ask, bid), R(2))
         IN  IF mid_price = Zero THEN Zero
             ELSE RMul(RDiv(RSub(ask, bid), mid_price), R(10000))

\* The MarketData object the feed builds from its cache
MarketData(bid, ask, asks) ==
    [bid |-> bid, ask |-> ask,
     spread |-> calculate_relative_spread(ask, bid),
     top_5_asks |-> asks]

\* The snapshots an order is executed against: no spread and an empty book
\* (no slippage), and a positive spread with a top-of-book quantity of 2.
Snapshots ==
    { MarketData(R(120), R(120), << >>),
      MarketData(R(100), R(110), << <<R(110), R(2)>> >>) }

\* ------------------------------------------------------------ orders
Symbols == {"BTCUSDT", "ETHUSDT"}
Sides == {"BUY", "SELL"}
Sizes == {R(-1), R(0), R(1), R(2)}

Order(symbol, side, size) == [symbol |-> symbol, side |-> side, size |-> size]
Orders == {Order(y, d, z) : y \in Symbols, d \in Sides, z \in Sizes}

\* ------------------------------------------------------------ ledger
InitialBalances == {R(300)}

Position(symbol, side, size, entry_price) ==
    [symbol |-> symbol, side |-> side, size |-> size, entry_price |-> entry_price]

Trade(symbol, side, exec_price, size, pnl, commission) ==
    [symbol |-> symbol, side |-> side, exec_price |-> exec_price,
     size |-> size, pnl |-> pnl, commission |-> commission]

NoPositions == << >>

\* The ledger a session starts from: no position, no trade, the
\* high-water mark at the starting balance.
TradingState(balance) ==
    [wallet_balance |-> balance,
     positions |-> NoPositions,
     trades |-> << >>,
     total_pnl |-> Zero,
     risk_metrics |-> [high_water_mark |-> balance, current_drawdown |-> Zero]]

\* positions is a dict: its domain is the set of symbols with a position
HasPosition(state, symbol) == symbol \in DOMAIN state.positions
SetPosition(positions, symbol, pos) ==
    [y \in DOMAIN positions \cup {symbol} |->
        IF y = symbol THEN pos ELSE positions[y]]
DelPosition(positions, symbol) ==
    [y \in DOMAIN positions \ {symbol} |-> positions[y]]

\* ------------------------------------------------------------ paper_trader
\* PaperTradingEngine._calculate_slippage: slippage in price units
calculate_slippage(order_size, market_data) ==
    IF RLe(market_data.spread, Zero) \/ market_data.top_5_asks = << >>
    THEN Zero
    ELSE LET top_level_qty == market_data.top_5_asks[1][2]
         IN  IF top_level_qty = Zero
             THEN RMul(market_data.spread, SLIPPAGE_FACTOR)
             ELSE LET size_ratio == RMin(RDiv(order_size, top_level_qty), One)
                      spread_price == RSub(market_data.ask, market_data.bid)
                  IN  RMul(RMul(spread_price, SLIPPAGE_FACTOR), size_ratio)

\* execute_order, line 67
exec_price_of(order, market_data) ==
    LET slippage == calculate_slippage(order.size, market_data)
    IN  IF order.side = "BUY" THEN RAdd(market_data.ask, slippage)
        ELSE RSub(market_data.bid, slippage)

\* the fee taken as 0.4% instead of 0.04%
commission_of_wrong_fee(order_cost) == RMul(order_cost, Rat(4, 1000))

\* execute_order, line 70
commission_of(order_cost) == RMul(order_cost, TAKER_FEE)

\* _update_risk_metrics taking the balance for the high-water mark
update_risk_metrics_no_max(state) ==
    LET new_hwm == state.wallet_balance
        drawdown == IF RLt(Zero, new_hwm)
                    THEN RDiv(RSub(new_hwm, state.wallet_balance), new_hwm)
                    ELSE Zero
    IN  [state EXCEPT !.risk_metrics =
            [high_water_mark |-> new_hwm, current_drawdown |-> drawdown]]

\* PaperTradingEngine._update_risk_metrics
update_risk_metrics(state) ==
    LET new_hwm == RMax(state.risk_metrics.high_water_mark, state.wallet_balance)
        drawdown == IF RLt(Zero, new_hwm)
                    THEN RDiv(RSub(new_hwm, state.wallet_balance), new_hwm)
                    ELSE Zero
    IN  [state EXCEPT !.risk_metrics =
            [high_water_mark |-> new_hwm, current_drawdown |-> drawdown]]

\* execute_order, lines 92 and 105: the pnl realized on `size` units
realized_pnl(side, size, entry_price, exec_price) ==
    LET entry_cost == RMul(size, entry_price)
        exit_cost == RMul(size, exec_price)
    IN  IF side = "LONG" THEN RSub(exit_cost, entry_cost)
        ELSE RSub(entry_cost, exit_cost)

\* What lines 66-109 leave behind: the working copy, the locals pnl,
\* commission and exec_price, and what follows: "record" (lines 111-117),
\* "recurse" (line 100, with rem_order) or "raise" (an exception).
Outcome(state, pnl, commission, exec_price, next, rem_order) ==
    [state |-> state, pnl |-> pnl, commission |-> commission,
     exec_price |-> exec_price, next |-> next, rem_order |-> rem_order]

\* execute_order, lines 75-78: no position for the symbol
open_position(order, new_state, exec_price, order_cost, commission) ==
    LET new_pos == Position(order.symbol,
                            IF order.side = "BUY" THEN "LONG" ELSE "SHORT",
                            order.size, exec_price)
    IN  Outcome([new_state EXCEPT
                    !.positions = SetPosition(@, order.symbol, new_pos),
                    !.wallet_balance = RSub(@, RAdd(order_cost, commission))],
                Zero, commission, exec_price, "record", order)

\* execute_order, lines 82-86: an order on the side of the position; the
\* division of line 84 raises ZeroDivisionError when the total size is 0
add_to_position(order, new_state, exec_price, order_cost, commission) ==
    LET existing_pos == new_state.positions[order.symbol]
        new_total_size == RAdd(existing_pos.size, order.size)
    IN  IF new_total_size = Zero
        THEN Outcome(new_state, Zero, commission, exec_price, "raise", order)
        ELSE LET new_entry_price ==
                    RDiv(RAdd(RMul(existing_pos.entry_price, existing_pos.size),
                              RMul(exec_price, order.size)),
                         new_total_size)
             IN  Outcome([new_state EXCEPT
                            !.positions[order.symbol].size = new_total_size,
                            !.positions[order.symbol].entry_price = new_entry_price,
                            !.wallet_balance = RSub(@, RAdd(order_cost, commission))],
                         Zero, commission, exec_price, "record", order)

\* the closed position left in the ledger
full_close_keeps_position(order, new_state, exec_price, commission) ==
    LET existing_pos == new_state.positions[order.symbol]
        closed_size == existing_pos.size
        pnl == realized_pnl(existing_pos.side, closed_size,
                            existing_pos.entry_price, exec_price)
        closed == [new_state EXCEPT
                     !.wallet_balance = RAdd(@, RSub(pnl, commission)),
                     !.total_pnl = RAdd(@, pnl)]
    IN  IF RLt(closed_size, order.size)
        THEN Outcome(closed, pnl, commission, exec_price, "recurse",
                     Order(order.symbol, order.side, RSub(order.size, closed_size)))
        ELSE Outcome(closed, pnl, commission, exec_price, "record", order)

\* execute_order, lines 88-100: an opposite order at least as large as the
\* position closes it; a larger one leaves a residual order
full_close(order, new_state, exec_price, commission) ==
    LET existing_pos == new_state.positions[order.symbol]
        closed_size == existing_pos.size
        pnl == realized_pnl(existing_pos.side, closed_size,
                            existing_pos.entry_price, exec_price)
        closed == [new_state EXCEPT
                     !.wallet_balance = RAdd(@, RSub(pnl, commission)),
                     !.total_pnl = RAdd(@, pnl),
                     !.positions = DelPosition(@, order.symbol)]
    IN  IF RLt(closed_size, order.size)
        THEN Outcome(closed, pnl, commission, exec_price, "recurse",
                     Order(order.symbol, order.side, RSub(order.size, closed_size)))
        ELSE Outcome(closed, pnl, commission, exec_price, "record", order)

\* the pnl realized on the whole position instead of the reduced size
partial_close_whole_pnl(order, new_state, exec_price, commission) ==
    LET existing_pos == new_state.positions[order.symbol]
        reduced_size == order.size
        pnl == realized_pnl(existing_pos.side, existing_pos.size,
                            existing_pos.entry_price, exec_price)
    IN  Outcome([new_state EXCEPT
                    !.positions[order.symbol].size = RSub(@, reduced_size),
                    !.wallet_balance = RAdd(@, RSub(pnl, commission)),
                    !.total_pnl = RAdd(@, pnl)],
                pnl, commission, exec_price, "record", order)

\* execute_order, lines 101-109: a smaller opposite order shrinks the position
partial_close(order, new_state, exec_price, commission) ==
    LET existing_pos == new_state.positions[order.symbol]
        reduced_size == order.size
        pnl == realized_pnl(existing_pos.side, reduced_size,
                            existing_pos.entry_price, exec_price)
    IN  Outcome([new_state EXCEPT
                    !.positions[order.symbol].size = RSub(@, reduced_size),
                    !.wallet_balance = RAdd(@, RSub(pnl, commission)),
                    !.total_pnl = RAdd(@, pnl)],
                pnl, commission, exec_price, "record", order)

\* execute_order, lines 80-81
is_same_side(existing_pos, order) ==
    \/ existing_pos.side = "LONG" /\ order.side = "BUY"
    \/ existing_pos.side = "SHORT" /\ order.side = "SELL"

\* execute_order, lines 66-109, on the working copy new_state
fill(order, new_state, market_data) ==
    LET exec_price == exec_price_of(order, market_data)
        order_cost == RMul(order.size, exec_price)
        commission == commission_of(order_cost)
    IN  IF ~HasPosition(new_state, order.symbol)
        THEN open_position(order, new_state, exec_price, order_cost, commission)
        ELSE IF is_same_side(new_state.positions[order.symbol], order)
        THEN add_to_position(order, new_state, exec_price, order_cost, commission)
        ELSE IF RLe(new_state.positions[order.symbol].size, order.size)
        THEN full_close(order, new_state, exec_price, commission)
        ELSE partial_close(order, new_state, exec_price, commission)

\* the Trade inserted at the head of the list
record_trade_at_head(state, trade) == [state EXCEPT !.trades = <<trade>> \o @]

\* execute_order, lines 111-112
record_trade(state, trade) == [state EXCEPT !.trades = Append(@, trade)]

\* no copy: the working "copy" is the object itself
deepcopy_alias(h, ref) == [heap |-> h, ref |-> ref]

\* copy.deepcopy(state), line 63: a new object with the same value
deepcopy(h, ref) == [heap |-> Append(h, h[ref]), ref |-> Len(h) + 1]

\* ------------------------------------------------------------ frames
\* One activation of execute_order: its arguments, its working copy, the
\* locals lines 66-109 leave behind, and (history) the value of the ledger
\* it was given, as it was when the call was made.
Frame(order, state, new_state, market_data, input) ==
    [order |-> order, state |-> state, new_state |-> new_state,
     market_data |-> market_data, input |-> input,
     pnl |-> Zero, commission |-> Zero, exec_price |-> Zero]

Top == stack[Len(stack)]

\* history record of a finished call; depth 1 is the caller's own call
LogEntry(f, depth, output, raised) ==
    [order |-> f.order, market_data |-> f.market_data, depth |-> depth,
     input |-> f.input, output |-> output, raised |-> raised,
     pnl |-> f.pnl, commission |-> f.commission, exec_price |-> f.exec_price]

\* the records of the frames of `frames`, innermost first
Unwind(frames, output, raised) ==
    [i \in 1..Len(frames) |->
        LogEntry(frames[Len(frames) + 1 - i], Len(frames) + 1 - i, output, raised)]

NumCalls == Cardinality({i \in DOMAIN log : log[i].depth = 1})

\* ------------------------------------------------------------ actions
\* the value of a variable in the specifications that do not use it
Unused == << >>

LedgerInit ==
    /\ \E b \in InitialBalances : heap = <<TradingState(b)>>
    /\ cur = 1
    /\ stack = << >>
    /\ pc = "idle"
    /\ ret = 0
    /\ published = <<heap[1]>>
    /\ log = << >>
    /\ seen = << >>

Init ==
    /\ LedgerInit
    /\ slip = Unused
    /\ sizer = Unused
    /\ fusion = Unused
    /\ single = Unused

\* execute_order is entered (lines 61-64): the ledger is copied and the
\* simulated latency starts
Enter(h, order, state, market_data) ==
    LET c == deepcopy(h, state)
    IN  /\ heap' = c.heap
        /\ stack' = Append(stack, Frame(order, state, c.ref, market_data, h[state]))
        /\ pc' = "sleep"

\* the trading loop calls execute_order on its current ledger
Call(order, market_data) ==
    /\ pc = "idle"
    /\ NumCalls < MaxOrders
    /\ Enter(heap, order, cur, market_data)
    /\ UNCHANGED <<cur, ret, published, log, seen>>
    /\ UNCHANGED other_vars

\* lines 66-109 when the fill is complete and lines 111-117 follow
Fill ==
    /\ pc = "sleep"
    /\ LET f == Top
           r == fill(f.order, heap[f.new_state], f.market_data)
       IN  /\ r.next = "record"
           /\ heap' = [heap EXCEPT ![f.new_state] = r.state]
           /\ stack' = [stack EXCEPT ![Len(stack)] =
                          [f EXCEPT !.pnl = r.pnl, !.commission = r.commission,
                                    !.exec_price = r.exec_price]]
           /\ pc' = "filled"
    /\ UNCHANGED <<cur, ret, published, log, seen>>
    /\ UNCHANGED other_vars

\* lines 88-100: the position is closed and the residual order is executed
\* by a recursive call on the working copy
FillRecurse ==
    /\ pc = "sleep"
    /\ LET f == Top
           r == fill(f.order, heap[f.new_state], f.market_data)
           g == [f EXCEPT !.pnl = r.pnl, !.commission = r.commission,
                          !.exec_price = r.exec_price]
           h == [heap EXCEPT ![f.new_state] = r.state]
           c == deepcopy(h, f.new_state)
       IN  /\ r.next = "recurse"
           /\ heap' = c.heap
           /\ stack' = Append([stack EXCEPT ![Len(stack)] = g],
                              Frame(r.rem_order, f.new_state, c.ref,
                                    f.market_data, h[f.new_state]))
           /\ pc' = "sleep"
    /\ UNCHANGED <<cur, ret, published, log, seen>>
    /\ UNCHANGED other_vars

\* line 84 divides by a total size of 0: ZeroDivisionError leaves every
\* frame; nothing is returned
FillRaise ==
    /\ pc = "sleep"
    /\ LET f == Top
           r == fill(f.order, heap[f.new_state], f.market_data)
       IN  /\ r.next = "raise"
           /\ log' = log \o Unwind(stack, "none", TRUE)
    /\ stack' = << >>
    /\ pc' = "idle"
    /\ UNCHANGED <<heap, cur, ret, published, seen>>
    /\ UNCHANGED other_vars

\* lines 111-117: the Trade is appended, the risk metrics are recomputed and
\* the working copy is returned through every frame
Record ==
    /\ pc = "filled"
    /\ LET f == Top
           trade == Trade(f.order.symbol, f.order.side, f.exec_price,
                          f.order.size, f.pnl, f.commission)
           final_state == update_risk_metrics(record_trade(heap[f.new_state], trade))
       IN  /\ heap' = [heap EXCEPT ![f.new_state] = final_state]
           /\ ret' = f.new_state
           /\ log' = log \o Unwind(stack, final_state, FALSE)
    /\ stack' = << >>
    /\ pc' = "returned"
    /\ UNCHANGED <<cur, published, seen>>
    /\ UNCHANGED other_vars

\* the trading loop publishes the returned ledger as its current one
Publish ==
    /\ pc = "returned"
    /\ cur' = ret
    /\ published' = Append(published, heap[ret])
    /\ pc' = "idle"
    /\ UNCHANGED <<heap, stack, ret, log, seen>>
    /\ UNCHANGED other_vars

\* the dashboard reads the ledger behind the caller's reference
Collect ==
    /\ seen' = <<heap[cur]>>
    /\ UNCHANGED <<heap, cur, stack, pc, ret, published, log>>
    /\ UNCHANGED other_vars

Next ==
    \/ \E order \in Orders, market_data \in Snapshots : Call(order, market_data)
    \/ Fill
    \/ FillRecurse
    \/ FillRaise
    \/ Record
    \/ Publish
    \/ Collect

Spec == Init /\ [][Next]_vars

\* ------------------------------------------------------------ properties
RECURSIVE RSum(_)
RSum(s) ==
    IF s = << >> THEN Zero
    ELSE IF Len(s) = 1 THEN s[1]
    ELSE LET h == Len(s) \div 2
         IN  RAdd(RSum(SubSeq(s, 1, h)), RSum(SubSeq(s, h + 1, Len(s))))

RECURSIVE NotionalOf(_, _)
NotionalOf(positions, symbols) ==
    IF symbols = {} THEN Zero
    ELSE LET y == CHOOSE z \in symbols : TRUE
         IN  RAdd(RMul(positions[y].size, positions[y].entry_price),
                  NotionalOf(positions, symbols \ {y}))

\* size x entry_price summed over the open positions of a ledger
OpenNotional(state) == NotionalOf(state.positions, DOMAIN state.positions)

\* the pnl realized and the commissions charged by the fills made so far
RealizedPnl == RSum([i \in DOMAIN log |-> log[i].pnl])
CommissionsCharged == RSum([i \in DOMAIN log |-> log[i].commission])

\* the calls made by the trading loop itself, in order
TopLog == SelectSeq(log, LAMBDA e : e.depth = 1)

OnlyPositiveSizes == \A i \in DOMAIN log : RLt(Zero, log[i].order.size)

IsPrefix(s, t) == Len(s) <= Len(t) /\ SubSeq(t, 1, Len(s)) = s

Ledgers == {published[k] : k \in DOMAIN published}

\* C1: after N fills the balance is the initial balance plus the realized
\* pnl, minus the commissions charged, minus the notional (size x
\* entry_price) of the positions still open.  Stated here for sequences of
\* orders of positive size only.
C1_Conservation ==
    (pc = "idle" /\ OnlyPositiveSizes) =>
        heap[cur].wallet_balance =
            RSub(RSub(RAdd(published[1].wallet_balance, RealizedPnl),
                      CommissionsCharged),
                 OpenNotional(heap[cur]))

\* The two legs of an oversized SELL of size s against the LONG `pos` of
\* size p, each computed on its own: the close of p at the order's execution
\* price, and the opening SELL of s - p executed as an order of its own.
TwoLegDelta(pos, order, exec_price, market_data) ==
    LET open_order == Order(order.symbol, order.side, RSub(order.size, pos.size))
        open_price == exec_price_of(open_order, market_data)
        close_notional == RMul(pos.size, exec_price)
        open_notional == RMul(open_order.size, open_price)
        close_leg == RSub(RMul(pos.size, RSub(exec_price, pos.entry_price)),
                          RMul(close_notional, TAKER_FEE))
        open_leg == RNeg(RAdd(open_notional, RMul(open_notional, TAKER_FEE)))
    IN  RAdd(close_leg, open_leg)

OversizedSell(e) ==
    /\ ~e.raised
    /\ e.depth = 1
    /\ e.order.side = "SELL"
    /\ HasPosition(e.input, e.order.symbol)
    /\ e.input.positions[e.order.symbol].side = "LONG"
    /\ RLt(Zero, e.input.positions[e.order.symbol].size)
    /\ RLt(e.input.positions[e.order.symbol].size, e.order.size)

\* C2: a SELL of size s against a LONG of size p < s leaves a SHORT of size
\* s - p and changes the balance by the sum of the two legs computed
\* independently (commission of the close on the notional p x exec_price).
C2_OversizedSellTwoLegs ==
    \A i \in DOMAIN log :
        OversizedSell(log[i]) =>
            LET e == log[i]
                y == e.order.symbol
                p == e.input.positions[y]
            IN  /\ HasPosition(e.output, y)
                /\ e.output.positions[y].side = "SHORT"
                /\ e.output.positions[y].size = RSub(e.order.size, p.size)
                /\ RSub(e.output.wallet_balance, e.input.wallet_balance)
                     = TwoLegDelta(p, e.order, e.exec_price, e.market_data)

Opposite(side) == IF side = "BUY" THEN "SELL" ELSE "BUY"

\* calls k and k+1 of the trading loop open a position and close it fully
\* at the price it was opened at
RoundTrip(k) ==
    LET a == TopLog[k]
        b == TopLog[k + 1]
    IN  /\ ~a.raised /\ ~b.raised
        /\ RLt(Zero, a.order.size)
        /\ ~HasPosition(a.input, a.order.symbol)
        /\ b.order.symbol = a.order.symbol
        /\ b.order.side = Opposite(a.order.side)
        /\ b.order.size = a.order.size
        /\ b.exec_price = a.exec_price

\* C3: opening a position and closing it fully at once at an unchanged
\* execution price realizes pnl 0, leaves no position for the symbol and
\* leaves the balance at the initial balance minus twice the commission.
C3_RoundTrip ==
    \A k \in 1..(Len(TopLog) - 1) :
        RoundTrip(k) =>
            LET a == TopLog[k]
                b == TopLog[k + 1]
            IN  /\ b.pnl = Zero
                /\ ~HasPosition(b.output, a.order.symbol)
                /\ b.output.wallet_balance =
                      RSub(a.input.wallet_balance, RMul(R(2), a.commission))

\* C4: in every ledger execute_order returns there is at most one Position
\* per symbol (the position stored under a symbol is that symbol's) and
\* every Position present has a size strictly greater than 0.
C4_PositionsPositive ==
    \A i \in DOMAIN log :
        ~log[i].raised =>
            \A y \in DOMAIN log[i].output.positions :
                /\ log[i].output.positions[y].symbol = y
                /\ RLt(Zero, log[i].output.positions[y].size)

\* C5: an order whose size is zero or negative is rejected: the call raises
\* and returns no ledger, so nothing is filled.
C5_NonPositiveRejected ==
    \A i \in DOMAIN log :
        (log[i].depth = 1 /\ RLe(log[i].order.size, Zero)) => log[i].raised

\* C6: the high-water mark of the ledger execute_order returns is at least
\* that of the ledger it was given, for every call (the recursive one
\* included), and so it never decreases along the published ledgers.
C6_HighWaterMarkMonotone ==
    /\ \A i \in DOMAIN log :
          ~log[i].raised =>
              RLe(log[i].input.risk_metrics.high_water_mark,
                  log[i].output.risk_metrics.high_water_mark)
    /\ \A k \in 1..(Len(published) - 1) :
          RLe(published[k].risk_metrics.high_water_mark,
              published[k + 1].risk_metrics.high_water_mark)

\* a call returned a ledger whose balance is below the high-water mark it
\* was given, and another one raised the high-water mark
C6_Witness ==
    /\ \E i \in DOMAIN log :
          /\ ~log[i].raised
          /\ RLt(log[i].output.wallet_balance,
                 log[i].input.risk_metrics.high_water_mark)
    /\ \E i \in DOMAIN log :
          /\ ~log[i].raised
          /\ RLt(log[i].input.risk_metrics.high_water_mark,
                 log[i].output.risk_metrics.high_water_mark)

\* C7: in every ledger execute_order returns, current_drawdown lies in
\* [0, 1].  Stated here for sequences of orders of positive size only.
C7_DrawdownInUnitInterval ==
    OnlyPositiveSizes =>
        \A i \in DOMAIN log :
            ~log[i].raised =>
                /\ RLe(Zero, log[i].output.risk_metrics.current_drawdown)
                /\ RLe(log[i].output.risk_metrics.current_drawdown, One)

ZeroSlippage(e) == calculate_slippage(e.order.size, e.market_data) = Zero

\* a BUY of positive size, without slippage, on a symbol with no position
OpeningBuy(e) ==
    /\ ~e.raised
    /\ e.order.side = "BUY"
    /\ RLt(Zero, e.order.size)
    /\ ~HasPosition(e.input, e.order.symbol)
    /\ ZeroSlippage(e)

\* a SELL of the whole size of the LONG position of its symbol
ClosingSell(e) ==
    /\ ~e.raised
    /\ e.order.side = "SELL"
    /\ HasPosition(e.input, e.order.symbol)
    /\ e.input.positions[e.order.symbol].side = "LONG"
    /\ e.input.positions[e.order.symbol].size = e.order.size

\* C8: with zero slippage a BUY of size S at ask A on a symbol with no
\* position lowers the balance by exactly S x A x (1 + 0.0004) and creates a
\* LONG position of size S with entry price A; a SELL of size S of that
\* position executed at A' records the pnl S x (A' - A) and credits the
\* balance with that pnl minus the commission S x A' x 0.0004.
C8_OpenThenCloseLong ==
    \A i \in DOMAIN log :
        LET e == log[i]
            y == e.order.symbol
            S == e.order.size
        IN  /\ OpeningBuy(e) =>
                /\ e.output.wallet_balance =
                      RSub(e.input.wallet_balance,
                           RMul(RMul(S, e.market_data.ask), RAdd(One, Rat(4, 10000))))
                /\ HasPosition(e.output, y)
                /\ e.output.positions[y] = Position(y, "LONG", S, e.market_data.ask)
            /\ ClosingSell(e) =>
                LET A == e.input.positions[y].entry_price
                    pnl == RMul(S, RSub(e.exec_price, A))
                IN  /\ e.pnl = pnl
                    /\ e.output.trades[Len(e.output.trades)].pnl = pnl
                    /\ ~HasPosition(e.output, y)
                    /\ e.output.wallet_balance =
                          RAdd(e.input.wallet_balance,
                               RSub(pnl, RMul(RMul(S, e.exec_price), Rat(4, 10000))))

\* a zero-slippage BUY opened a LONG and the next call sold all of it at
\* another price
C8_Witness ==
    \E k \in 1..(Len(TopLog) - 1) :
        /\ OpeningBuy(TopLog[k])
        /\ ClosingSell(TopLog[k + 1])
        /\ TopLog[k + 1].order.symbol = TopLog[k].order.symbol
        /\ TopLog[k + 1].exec_price # TopLog[k].exec_price
        /\ TopLog[k + 1].pnl # Zero

\* C9: execute_order never mutates the ledger it is given: while a call is
\* in progress (the recursive one included) the ledger each frame was given
\* has the value it had when the call was made, the caller's ledger is one
\* the caller published, and the dashboard has only ever read a published
\* ledger, never a half-applied fill.
C9_CallerLedgerUntouched ==
    /\ \A j \in DOMAIN stack : heap[stack[j].state] = stack[j].input
    /\ heap[cur] = published[Len(published)]
    /\ \A k \in DOMAIN seen : seen[k] \in Ledgers

\* the residual order of an oversized close has been filled on its own
\* working copy, the dashboard has read the caller's ledger, and that ledger
\* differs from both working copies
C9_Witness ==
    /\ pc = "filled"
    /\ Len(stack) = 2
    /\ seen = <<heap[cur]>>
    /\ heap[stack[1].new_state] # heap[cur]
    /\ heap[stack[2].new_state] # heap[stack[1].new_state]

\* C10: trades is append-only: the trades of the ledger execute_order
\* returns start with the trades of the ledger it was given, unchanged and
\* in the same order.
C10_TradesAppendOnly ==
    \A i \in DOMAIN log :
        ~log[i].raised => IsPrefix(log[i].input.trades, log[i].output.trades)

\* a call was given a ledger with a trade and returned one with more trades
C10_Witness ==
    \E i \in DOMAIN log :
        /\ ~log[i].raised
        /\ log[i].input.trades # << >>
        /\ Len(log[i].output.trades) > Len(log[i].input.trades)

\* the trades a finished call appended to the ledger it was given
AddedTrades(e) ==
    SubSeq(e.output.trades, Len(e.input.trades) + 1, Len(e.output.trades))

\* an order on the opposite side of a position, larger than the position
OversizedClose(e) ==
    /\ HasPosition(e.input, e.order.symbol)
    /\ ~is_same_side(e.input.positions[e.order.symbol], e.order)
    /\ RLt(e.input.positions[e.order.symbol].size, e.order.size)

\* C21: every order execute_order processes appends its own Trade carrying
\* the fill's pnl and commission; an oversized opposite order adds two
\* Trades (the closing fill and the residual opening fill), so the pnl
\* credited to the ledger is the pnl found in its trades.  Stated here for
\* sequences of orders of positive size only.
C21_EveryFillRecorded ==
    OnlyPositiveSizes =>
        \A i \in DOMAIN log :
            ~log[i].raised =>
                LET e == log[i]
                    added == AddedTrades(e)
                IN  /\ \E j \in DOMAIN added :
                           /\ added[j].pnl = e.pnl
                           /\ added[j].commission = e.commission
                           /\ added[j].exec_price = e.exec_price
                    /\ Len(added) = IF OversizedClose(e) THEN 2 ELSE 1
                    /\ RSum([j \in DOMAIN e.output.trades |->
                                e.output.trades[j].pnl]) = e.output.total_pnl

\* the activations of execute_order never nest deeper than the caller's
\* call and one residual call, and the residual order finds no position
RecursionBounded ==
    /\ Len(stack) <= 2
    /\ \A j \in DOMAIN stack :
           j > 1 => ~HasPosition(stack[j].input, stack[j].order.symbol)
    /\ \A i \in DOMAIN log :
           log[i].depth > 1 =>
               /\ log[i].depth = 2
               /\ ~log[i].raised
               /\ ~HasPosition(log[i].input, log[i].order.symbol)
               /\ HasPosition(log[i].output, log[i].order.symbol)
               /\ log[i].output.positions[log[i].order.symbol].size
                      = log[i].order.size

\* C22: execute_order recurses at most one extra level: the residual order
\* issued after a full close finds no position for its symbol and opens a
\* fresh one, so it issues no further residual order.
C22_OneExtraLevel == RecursionBounded

\* a residual order of positive size has opened its position and returned
C22_Witness ==
    \E i \in DOMAIN log :
        /\ log[i].depth = 2
        /\ RLt(Zero, log[i].order.size)
        /\ HasPosition(log[i].output, log[i].order.symbol)

\* an order on the opposite side of a position, smaller than the position
PartialClose(e) ==
    /\ ~e.raised
    /\ HasPosition(e.input, e.order.symbol)
    /\ ~is_same_side(e.input.positions[e.order.symbol], e.order)
    /\ RLt(e.order.size, e.input.positions[e.order.symbol].size)

\* C25: an opposite order smaller than the position leaves the position
\* with its side and entry price and its size reduced by order.size,
\* records the pnl of order.size units ((exec - entry) x size for a LONG,
\* (entry - exec) x size for a SHORT) and credits the balance with that pnl
\* minus the commission.
C25_PartialClose ==
    \A i \in DOMAIN log :
        PartialClose(log[i]) =>
            LET e == log[i]
                y == e.order.symbol
                p == e.input.positions[y]
                pnl == IF p.side = "LONG"
                       THEN RMul(RSub(e.exec_price, p.entry_price), e.order.size)
                       ELSE RMul(RSub(p.entry_price, e.exec_price), e.order.size)
            IN  /\ HasPosition(e.output, y)
                /\ e.output.positions[y] =
                       Position(y, p.side, RSub(p.size, e.order.size), p.entry_price)
                /\ e.pnl = pnl
                /\ e.output.trades[Len(e.output.trades)].pnl = pnl
                /\ e.output.total_pnl = RAdd(e.input.total_pnl, pnl)
                /\ e.output.wallet_balance =
                       RAdd(e.input.wallet_balance,
                            RSub(pnl, RMul(RMul(e.order.size, e.exec_price),
                                           Rat(4, 10000))))

\* half of a position of size 2 was closed at a loss
C25_Witness ==
    \E i \in DOMAIN log :
        /\ PartialClose(log[i])
        /\ log[i].order.size = One
        /\ log[i].input.positions[log[i].order.symbol].size = R(2)
        /\ RLt(log[i].pnl, Zero)
        /\ log[i].output.positions[log[i].order.symbol].size = One

\* ------------------------------------------------------------ IEEE doubles
\* Where the code truncates a float quotient (risk_controller.py line 88)
\* the rounding of binary64 decides the result, so there floats are
\* modelled as binary64 values.  A natural number is a sequence of limbs in
\* base 2^15, least significant first, without leading zero limbs.
Limb == 2 ^ 15

RECURSIVE BFromInt(_)
BFromInt(n) == IF n = 0 THEN << >> ELSE <<n % Limb>> \o BFromInt(n \div Limb)

RECURSIVE BToInt(_)
BToInt(a) == IF a = << >> THEN 0 ELSE Head(a) + Limb * BToInt(Tail(a))

BLimb(a, i) == IF i >= 1 /\ i <= Len(a) THEN a[i] ELSE 0

MaxOf(S) == CHOOSE x \in S : \A y \in S : y <= x

BNorm(a) ==
    LET nz == {i \in DOMAIN a : a[i] # 0}
    IN  IF nz = {} THEN << >> ELSE SubSeq(a, 1, MaxOf(nz))

\* a + b: the carry into limb i comes from a limb below that overflows,
\* through limbs that pass a carry on
BAdd(a, b) ==
    LET n == IF Len(a) < Len(b) THEN Len(b) ELSE Len(a)
        t == [i \in 1..(n + 1) |-> BLimb(a, i) + BLimb(b, i)]
        c == [i \in 1..(n + 1) |->
                 IF \E j \in 1..(i - 1) :
                        t[j] >= Limb /\ \A k \in (j + 1)..(i - 1) : t[k] = Limb - 1
                 THEN 1 ELSE 0]
    IN  BNorm([i \in 1..(n + 1) |-> (t[i] + c[i]) % Limb])

\* a - b for a >= b: the borrow from limb i, likewise
BSub(a, b) ==
    LET c == [i \in 1..Len(a) |->
                 IF \E j \in 1..(i - 1) :
                        a[j] < BLimb(b, j)
                        /\ \A k \in (j + 1)..(i - 1) : a[k] = BLimb(b, k)
                 THEN 1 ELSE 0]
    IN  BNorm([i \in 1..Len(a) |-> (a[i] - BLimb(b, i) - c[i]) % Limb])

\* -1, 0, 1 as a < b, a = b, a > b
BCmp(a, b) ==
    IF Len(a) < Len(b) THEN -1
    ELSE IF Len(a) > Len(b) THEN 1
    ELSE LET diff == {i \in DOMAIN a : a[i] # b[i]}
         IN  IF diff = {} THEN 0
             ELSE IF a[MaxOf(diff)] < b[MaxOf(diff)] THEN -1 ELSE 1

\* a * s + c for 0 <= s, c < Limb
RECURSIVE BMulSmall(_, _, _)
BMulSmall(a, s, c) ==
    IF a = << >> THEN (IF c = 0 THEN << >> ELSE <<c>>)
    ELSE LET x == Head(a) * s + c
         IN  <<x % Limb>> \o BMulSmall(Tail(a), s, x \div Limb)

\* a * 2^k
BShl(a, k) ==
    IF a = << >> THEN a
    ELSE [i \in 1..(k \div 15) |-> 0] \o BMulSmall(a, 2 ^ (k % 15), 0)

\* a \div 2^s for 0 <= s < 15
BShr(a, s) ==
    BNorm([i \in 1..Len(a) |->
              (a[i] \div 2 ^ s) + (BLimb(a, i + 1) % 2 ^ s) * 2 ^ (15 - s)])

BPow2(k) == BShl(<<1>>, k)

\* One step of the long division by d, whose top limb is at least Limb / 2:
\* h is <<quotient, remainder>> of the limbs above, limb the next one.  The
\* quotient digit estimated from the two top limbs of the remainder is at
\* most 2 too large.
BDivEmit(h, r, d, q) ==
    <<BNorm(<<q>> \o h[1]), IF q = 0 THEN r ELSE BSub(r, BMulSmall(d, q, 0))>>

BDivDigit(h, r, d, est) ==
    BDivEmit(h, r, d,
             MaxOf({x \in {est, est - 1, est - 2} :
                      x = 0 \/ (x > 0 /\ BCmp(BMulSmall(d, x, 0), r) <= 0)}))

BDivEstimate(h, r, d, top) ==
    BDivDigit(h, r, d, IF top > Limb - 1 THEN Limb - 1 ELSE top)

BDivStep(h, limb, d) ==
    IF h[2] = << >> /\ limb = 0 THEN <<BNorm(<<0>> \o h[1]), << >> >>
    ELSE BDivEstimate(h, BNorm(<<limb>> \o h[2]), d,
                      (BLimb(h[2], Len(d)) * Limb + BLimb(<<limb>> \o h[2], Len(d)))
                          \div d[Len(d)])

\* the limbs i..Len(n) of n divided by d; fewer limbs than d has are a
\* remainder already
RECURSIVE BDivFrom(_, _, _)
BDivFrom(n, d, i) ==
    IF i > Len(n) - Len(d) + 1
    THEN << << >>, IF i > Len(n) THEN << >> ELSE SubSeq(n, i, Len(n)) >>
    ELSE BDivStep(BDivFrom(n, d, i + 1), n[i], d)

RECURSIVE IntBits(_)
IntBits(n) == IF n = 0 THEN 0 ELSE 1 + IntBits(n \div 2)

BDivUnshift(h, s) == <<h[1], BShr(h[2], s)>>
BDivShifted(n, d, s) == BDivUnshift(BDivFrom(BShl(n, s), BShl(d, s), 1), s)

\* <<quotient, remainder>> of n by d > 0
BDivMod(n, d) == BDivShifted(n, d, 15 - IntBits(d[Len(d)]))

BBitLen(a) == IF a = << >> THEN 0 ELSE 15 * (Len(a) - 1) + IntBits(a[Len(a)])
BIsOdd(a) == a # << >> /\ a[1] % 2 = 1

\* A double is (-1)^sign x m x 2^e with m = 0 or 2^52 <= m < 2^53 (the
\* range of exponents is not limited: no overflow, no subnormals).
MantissaBits == 53
FZero == [sign |-> 0, m |-> << >>, e |-> 0]

FRoundCarry(sign, q, e) ==
    IF BBitLen(q) > MantissaBits
    THEN [sign |-> sign, m |-> BShr(q, 1), e |-> e + 1]
    ELSE [sign |-> sign, m |-> q, e |-> e]

FRoundHalf(sign, qr, e, sticky, half) ==
    FRoundCarry(sign,
                IF half > 0 \/ (half = 0 /\ (sticky \/ BIsOdd(qr[1])))
                THEN BAdd(qr[1], <<1>>) ELSE qr[1],
                e)

FRoundDrop(sign, qr, e, sticky, k) ==
    FRoundHalf(sign, qr, e + k, sticky, BCmp(qr[2], BPow2(k - 1)))

FRoundBits(sign, M, e, sticky, len) ==
    IF len <= MantissaBits
    THEN [sign |-> sign, m |-> BShl(M, MantissaBits - len),
          e |-> e - (MantissaBits - len)]
    ELSE FRoundDrop(sign, BDivMod(M, BPow2(len - MantissaBits)), e, sticky,
                    len - MantissaBits)

\* round-to-nearest-even of (-1)^sign x (M + f) x 2^e, 0 <= f < 1, f > 0 iff sticky
FRound(sign, M, e, sticky) ==
    IF M = << >> THEN FZero ELSE FRoundBits(sign, M, e, sticky, BBitLen(M))

FRoundQuotient(sign, qr, e) == FRound(sign, qr[1], e, qr[2] # << >>)

FFromRatScaled(n, d, k) ==
    FRoundQuotient(IF (n < 0) # (d < 0) THEN 1 ELSE 0,
                   BDivMod(BShl(BFromInt(Abs(n)), k), BFromInt(Abs(d))), -k)

\* the double nearest to n / d (a float literal, or a division of integers)
FFromRat(n, d) ==
    IF n = 0 THEN FZero ELSE FFromRatScaled(n, d, 64 + IntBits(Abs(d)))

FNeg(x) == IF x.m = << >> THEN x ELSE [x EXCEPT !.sign = 1 - @]

FExactAligned(xsign, ysign, mx, my, e, c) ==
    IF xsign = ysign THEN <<xsign, BAdd(mx, my), e>>
    ELSE IF c = 0 THEN <<0, << >>, 0>>
    ELSE IF c > 0 THEN <<xsign, BSub(mx, my), e>>
    ELSE <<ysign, BSub(my, mx), e>>

FExactShifted(xsign, ysign, mx, my, e) ==
    FExactAligned(xsign, ysign, mx, my, e, BCmp(mx, my))

FExactAt(x, y, e) ==
    FExactShifted(x.sign, y.sign, BShl(x.m, x.e - e), BShl(y.m, y.e - e), e)

\* the exact sum x + y as <<sign, magnitude, exponent>>
FExactAdd(x, y) ==
    IF x.m = << >> THEN <<y.sign, y.m, y.e>>
    ELSE IF y.m = << >> THEN <<x.sign, x.m, x.e>>
    ELSE FExactAt(x, y, IF x.e < y.e THEN x.e ELSE y.e)

FRoundExact(t) == FRound(t[1], t[2], t[3], FALSE)
FAdd(x, y) == FRoundExact(FExactAdd(x, y))
FSub(x, y) == FAdd(x, FNeg(y))

FSignOf(t) == IF t[2] = << >> THEN 0 ELSE IF t[1] = 1 THEN -1 ELSE 1

\* -1, 0, 1 as x < y, x = y, x > y
FCmp(x, y) == FSignOf(FExactAdd(x, FNeg(y)))

\* x / y for y # 0
FDiv(x, y) ==
    IF x.m = << >> THEN FZero
    ELSE FRoundQuotient(IF x.sign = y.sign THEN 0 ELSE 1,
                        BDivMod(BShl(x.m, 56), y.m), x.e - y.e - 56)

RECURSIVE BMul(_, _)
BMul(a, b) ==
    IF b = << >> THEN << >>
    ELSE BAdd(BMulSmall(a, Head(b), 0), <<0>> \o BMul(a, Tail(b)))

FMul(x, y) ==
    IF x.m = << >> \/ y.m = << >> THEN FZero
    ELSE FRound(IF x.sign = y.sign THEN 0 ELSE 1, BMul(x.m, y.m), x.e + y.e, FALSE)

FIntSigned(sign, mag) == IF sign = 1 THEN -mag ELSE mag

\* int(x): truncation toward zero
FInt(x) ==
    IF x.m = << >> THEN 0
    ELSE FIntSigned(x.sign,
                    IF x.e >= 0 THEN BToInt(BShl(x.m, x.e))
                    ELSE BToInt(BDivMod(x.m, BPow2(-x.e))[1]))

\* ------------------------------------------------------------ risk sizing
KELLY_HISTORY == 50
MIN_KELLY_TRADES == 20
MAX_RISK_PER_TRADE == Rat(15, 1000)
RECOVERY_MODE_RISK == Rat(5, 1000)
VOLATILITY_PERIODS == 20
VOLATILITY_TARGET == Rat(2, 100)
DRAWDOWN_HARD_STOP == FFromRat(8, 100)
DRAWDOWN_LEVEL_1 == FFromRat(5, 100)
DRAWDOWN_TIER_WIDTH == FFromRat(1, 100)
DRAWDOWN_REDUCTION_STEP == Rat(25, 100)
MIN_ORDER_USD == R(10)
MAX_ORDER_USD == R(1000)

\* The float a ledger holds in risk_metrics.current_drawdown: the quotient
\* of two floats of integral value, rounded once.
drawdown_float(state) ==
    FFromRat(state.risk_metrics.current_drawdown[1],
             state.risk_metrics.current_drawdown[2])

\* odds is a float that may be infinite, kelly_fraction one that may be nan
Finite(x) == [inf |-> FALSE, nan |-> FALSE, v |-> x]
Infinity == [inf |-> TRUE, nan |-> FALSE, v |-> Zero]
NaN == [inf |-> FALSE, nan |-> TRUE, v |-> Zero]

LastN(s, n) == IF Len(s) <= n THEN s ELSE SubSeq(s, Len(s) - n + 1, Len(s))

RAbs(a) == <<Abs(a[1]), a[2]>>

DefaultStats == [win_rate |-> Rat(1, 2), odds |-> Finite(One)]

odds_of(avg_win, avg_loss) ==
    IF RLt(Zero, avg_loss) THEN Finite(RDiv(avg_win, avg_loss)) ELSE Infinity

win_rate_and_odds(recent_trades, wins, losses) ==
    IF wins = << >> \/ losses = << >> THEN DefaultStats
    ELSE [win_rate |-> Rat(Len(wins), Len(recent_trades)),
          odds |-> odds_of(RDiv(RSum(wins), R(Len(wins))),
                           RDiv(RSum(losses), R(Len(losses))))]

PnlOf(trades) == [k \in DOMAIN trades |-> trades[k].pnl]
AbsOf(pnls) == [k \in DOMAIN pnls |-> RAbs(pnls[k])]

recent_win_rate_and_odds(recent_trades) ==
    IF Len(recent_trades) < MIN_KELLY_TRADES THEN DefaultStats
    ELSE win_rate_and_odds(
             recent_trades,
             SelectSeq(PnlOf(recent_trades), LAMBDA x : RLt(Zero, x)),
             AbsOf(SelectSeq(PnlOf(recent_trades), LAMBDA x : RLe(x, Zero))))

calculate_win_rate_and_odds(trades) ==
    recent_win_rate_and_odds(LastN(trades, KELLY_HISTORY))

\* (win_rate * odds - (1 - win_rate)) / odds if odds > 0 else 0.0; with an
\* infinite odds the quotient is inf / inf
kelly_fraction_of(win_rate, odds) ==
    IF odds.inf
    THEN (IF RLt(Zero, win_rate) THEN NaN ELSE Finite(Zero))
    ELSE IF RLt(Zero, odds.v)
    THEN Finite(RDiv(RSub(RMul(win_rate, odds.v), RSub(One, win_rate)), odds.v))
    ELSE Finite(Zero)

\* max(0, kelly_fraction * 0.5): max keeps its first argument unless the
\* second compares greater, and nan compares greater than nothing
target_risk_pct_of(kelly_fraction) ==
    IF kelly_fraction.nan THEN Zero
    ELSE RMax(Zero, RMul(kelly_fraction.v, Rat(1, 2)))

\* The 1h series a ledger carries, by what the rolling deviation of its
\* returns is: no 1h entry, an empty frame, fewer than 20 returns, or 20
\* returns and more with a deviation that is nan, 0, 1% or 4%.
HistoricalData ==
    { [has_1h |-> FALSE, returns |-> 0, vol |-> Finite(Zero)],
      [has_1h |-> TRUE, returns |-> 0, vol |-> NaN],
      [has_1h |-> TRUE, returns |-> VOLATILITY_PERIODS - 1, vol |-> NaN],
      [has_1h |-> TRUE, returns |-> VOLATILITY_PERIODS, vol |-> NaN],
      [has_1h |-> TRUE, returns |-> VOLATILITY_PERIODS, vol |-> Finite(Zero)],
      [has_1h |-> TRUE, returns |-> VOLATILITY_PERIODS, vol |-> Finite(Rat(1, 100))],
      [has_1h |-> TRUE, returns |-> VOLATILITY_PERIODS + 5, vol |-> Finite(Rat(4, 100))] }

calculate_realized_volatility(historical_data) ==
    IF ~historical_data.has_1h \/ historical_data.returns = 0
    THEN VOLATILITY_TARGET
    ELSE IF historical_data.returns < VOLATILITY_PERIODS
    THEN VOLATILITY_TARGET
    ELSE IF ~historical_data.vol.nan /\ ~historical_data.vol.inf
            /\ RLt(Zero, historical_data.vol.v)
    THEN historical_data.vol.v
    ELSE VOLATILITY_TARGET

\* lines 88-92
reduced_factor_no_offset(dd_steps) ==
    [factor |-> RMax(Zero, RSub(One, RMul(R(dd_steps), DRAWDOWN_REDUCTION_STEP))),
     hard_stop |-> FALSE]

\* lines 89-90: reduction = (dd_steps + 1) * step; max(0, 1 - reduction)
reduced_factor(dd_steps) ==
    [factor |-> RMax(Zero, RSub(One, RMul(R(dd_steps + 1), DRAWDOWN_REDUCTION_STEP))),
     hard_stop |-> FALSE]

dd_steps_round(drawdown) ==
    FInt(FAdd(FDiv(FSub(drawdown, DRAWDOWN_LEVEL_1), DRAWDOWN_TIER_WIDTH),
              FFromRat(1, 2)))

\* int((drawdown - DRAWDOWN_LEVEL_1) / 0.01)
dd_steps_of(drawdown) ==
    FInt(FDiv(FSub(drawdown, DRAWDOWN_LEVEL_1), DRAWDOWN_TIER_WIDTH))

drawdown_tier(drawdown) ==
    IF FCmp(drawdown, DRAWDOWN_HARD_STOP) >= 0
    THEN [factor |-> Zero, hard_stop |-> TRUE]
    ELSE IF FCmp(drawdown, DRAWDOWN_LEVEL_1) >= 0
    THEN reduced_factor(dd_steps_of(drawdown))
    ELSE [factor |-> One, hard_stop |-> FALSE]

check_drawdown_no_hard_stop(state) == [factor |-> One, hard_stop |-> FALSE]

check_drawdown(state) == drawdown_tier(drawdown_float(state))

\* What a call returns: the size, or the error it raises (a division by 0).
Returned(size) == [raised |-> FALSE, size |-> size]
ZeroDivisionError == [raised |-> TRUE, size |-> Zero]

\* lines 124-128
size_in_asset_unguarded(wallet_balance, clamped, price) ==
    IF price = Zero THEN ZeroDivisionError
    ELSE Returned(RDiv(IF RLt(wallet_balance, clamped)
                       THEN wallet_balance ELSE clamped, price))

size_in_asset(wallet_balance, clamped, price) ==
    IF RLe(price, Zero) THEN Returned(Zero)
    ELSE Returned(RDiv(IF RLt(wallet_balance, clamped)
                       THEN wallet_balance ELSE clamped, price))

\* the size computed without the test of line 118
size_for_risk_unguarded(state, final_risk_pct, price) ==
    size_in_asset(
        state.wallet_balance,
        RMax(MIN_ORDER_USD,
             RMin(RMul(state.wallet_balance, final_risk_pct), MAX_ORDER_USD)),
        price)

\* lines 118-122
size_for_risk(state, final_risk_pct, price) ==
    IF RLe(final_risk_pct, Zero) THEN Returned(Zero)
    ELSE size_in_asset(
             state.wallet_balance,
             RMax(MIN_ORDER_USD,
                  RMin(RMul(state.wallet_balance, final_risk_pct), MAX_ORDER_USD)),
             price)

in_recovery_mode(state) ==
    RLt(state.wallet_balance, state.risk_metrics.high_water_mark)

max_risk_of(state) ==
    IF in_recovery_mode(state) THEN RECOVERY_MODE_RISK ELSE MAX_RISK_PER_TRADE

\* lines 113-116
scaled_risk(state, capped, dd_factor, volatility, price) ==
    IF volatility = Zero THEN ZeroDivisionError
    ELSE size_for_risk(
             state,
             RMul(capped, RMul(dd_factor, RMin(One, RDiv(VOLATILITY_TARGET, volatility)))),
             price)

\* lines 110-111
capped_risk(state, historical_data, price, dd_factor, kelly_fraction) ==
    IF kelly_fraction.nan \/ RLe(kelly_fraction.v, Zero)
    THEN scaled_risk(state, Zero, dd_factor,
                     calculate_realized_volatility(historical_data), price)
    ELSE scaled_risk(state,
                     RMin(target_risk_pct_of(kelly_fraction), max_risk_of(state)),
                     dd_factor,
                     calculate_realized_volatility(historical_data), price)

\* lines 107-108
kelly_sized(state, historical_data, price, dd_factor, stats) ==
    capped_risk(state, historical_data, price, dd_factor,
                kelly_fraction_of(stats.win_rate, stats.odds))

\* lines 101-105
size_after_drawdown(state, historical_data, price, dd) ==
    IF dd.hard_stop THEN Returned(Zero)
    ELSE kelly_sized(state, historical_data, price, dd.factor,
                     calculate_win_rate_and_odds(state.trades))

calculate_position_size(state, historical_data, signal, price) ==
    size_after_drawdown(state, historical_data, price, check_drawdown(state))

\* ---- the inputs of a sizing call
Repeat(x, n) == [k \in 1..n |-> x]
ClosedTrade(pnl) == Trade("BTCUSDT", "SELL", R(100), One, pnl, Zero)

\* Trade histories: none; 19 trades; 20 with 15 wins of 2 against 5 losses of
\* 1; 20 with even wins of 51 against losses of 50; 20 wins only; 20 with 5
\* wins against 15 losses; 20 with 10 wins and 10 trades of pnl 0; 60 whose
\* last 50 are all losses.
TradeHistories ==
    { << >>,
      Repeat(ClosedTrade(R(2)), 15) \o Repeat(ClosedTrade(R(-1)), 4),
      Repeat(ClosedTrade(R(2)), 15) \o Repeat(ClosedTrade(R(-1)), 5),
      Repeat(ClosedTrade(R(51)), 10) \o Repeat(ClosedTrade(R(-50)), 10),
      Repeat(ClosedTrade(R(2)), 20),
      Repeat(ClosedTrade(R(1)), 5) \o Repeat(ClosedTrade(R(-1)), 15),
      Repeat(ClosedTrade(R(2)), 10) \o Repeat(ClosedTrade(Zero), 10),
      Repeat(ClosedTrade(R(2)), 10) \o Repeat(ClosedTrade(R(-1)), 50) }

\* <<high-water mark, balance>>: at the mark, in every drawdown tier, at
\* the hard stop and beyond, a balance of 0 and below, and a small account.
MarkAndBalance ==
    { <<4000, 4000>>, <<1000, 1000>>, <<1000, 990>>, <<1000, 950>>,
      <<1000, 945>>, <<1000, 940>>, <<1000, 930>>, <<1000, 921>>,
      <<1000, 920>>, <<1000, 900>>, <<1000, 0>>, <<1000, -50>>,
      <<8, 8>>, <<50, 47>> }

\* A ledger as execute_order leaves it: the trades recorded, then the risk
\* metrics recomputed from the balance.
SizerLedger(mb, trades) ==
    update_risk_metrics(
        [TradingState(R(mb[1])) EXCEPT !.wallet_balance = R(mb[2]),
                                       !.trades = trades])

Decisions == {"LONG_ENTRY", "SHORT_ENTRY", "WAITING"}
SizerSignals == {"LONG_ENTRY", "WAITING"}
SizerPrices == {R(-1), Zero, R(100)}

SizerInit ==
    /\ LedgerInit
    /\ \E mb \in MarkAndBalance, trades \in TradeHistories,
          hd \in HistoricalData, sig \in SizerSignals, price \in SizerPrices :
          sizer = <<[state |-> SizerLedger(mb, trades), historical_data |-> hd,
                     signal |-> sig, price |-> price, called |-> FALSE,
                     dd |-> [factor |-> One, hard_stop |-> FALSE],
                     result |-> Returned(Zero)]>>
    /\ slip = Unused
    /\ fusion = Unused
    /\ single = Unused

\* risk_manager.calculate_position_size(state, signal, price); dd is what
\* its call of check_drawdown (line 100) returned
SizeOrder ==
    /\ sizer # Unused
    /\ ~sizer[1].called
    /\ sizer' = <<[sizer[1] EXCEPT
                     !.called = TRUE,
                     !.dd = check_drawdown(sizer[1].state),
                     !.result = calculate_position_size(sizer[1].state,
                                    sizer[1].historical_data,
                                    sizer[1].signal, sizer[1].price)]>>
    /\ UNCHANGED ledger_vars
    /\ UNCHANGED <<slip, fusion, single>>

SizerNext == SizeOrder

SizerSpec == SizerInit /\ [][SizerNext]_vars

\* ---- properties of the sizing
SizerCalls == {sizer[k] : k \in {j \in DOMAIN sizer : sizer[j].called}}

\* trade histories from which the Kelly fraction is positive
WinningStats(stats) ==
    RLt(Zero, target_risk_pct_of(kelly_fraction_of(stats.win_rate, stats.odds)))
WinningHistory(trades) == WinningStats(calculate_win_rate_and_odds(trades))

\* C11: calculate_position_size returns size 0 whenever the ledger's
\* current_drawdown is at least 0.08, whatever the signal, the price, the
\* balance, the trade history and the historical data are.
C11_HardStopSizeZero ==
    \A c \in SizerCalls :
        RLe(Rat(8, 100), c.state.risk_metrics.current_drawdown)
            => c.result = Returned(Zero)

\* a drawdown of exactly 0.08 with inputs that would otherwise be sized
C11_Witness ==
    \E c \in SizerCalls :
        /\ c.state.risk_metrics.current_drawdown = Rat(8, 100)
        /\ WinningHistory(c.state.trades)
        /\ c.price = R(100)
        /\ c.result = Returned(Zero)

\* C12: for a ledger whose current_drawdown is exactly 0.06, check_drawdown
\* returns dd_factor = 0.75 and no hard stop.
C12_FactorAtSixPercent ==
    \A c \in SizerCalls :
        c.state.risk_metrics.current_drawdown = Rat(6, 100)
            => c.dd = [factor |-> Rat(75, 100), hard_stop |-> FALSE]

C12_Witness ==
    \E c \in SizerCalls :
        /\ c.state.risk_metrics.current_drawdown = Rat(6, 100)
        /\ c.state.wallet_balance = R(940)
        /\ c.dd.factor = Rat(3, 4)
        /\ ~c.dd.hard_stop

\* C13: whenever calculate_position_size returns a non-zero size, size x
\* price is at most 0.5% of wallet_balance when wallet_balance is below the
\* high-water mark, and at most 1.5% of wallet_balance otherwise.
C13_RiskCapRespected ==
    \A c \in SizerCalls :
        (~c.result.raised /\ c.result.size # Zero)
            => RLe(RMul(c.result.size, c.price),
                   RMul(c.state.wallet_balance,
                        IF RLt(c.state.wallet_balance,
                               c.state.risk_metrics.high_water_mark)
                        THEN Rat(5, 1000) ELSE Rat(15, 1000)))

TIME_FRAMES == <<"1m", "3m", "5m", "15m", "30m", "1h">>
TimeFrames == {TIME_FRAMES[k] : k \in DOMAIN TIME_FRAMES}
TIME_FRAME_WEIGHTS ==
    [tf \in TimeFrames |->
        CASE tf = "1m" -> FFromRat(10, 100)
          [] tf = "3m" -> FFromRat(15, 100)
          [] tf = "5m" -> FFromRat(20, 100)
          [] tf = "15m" -> FFromRat(25, 100)
          [] tf = "30m" -> FFromRat(15, 100)
          [] tf = "1h" -> FFromRat(15, 100)]
HISTORICAL_WINDOW == 200
CONFIDENCE_THRESHOLD == FFromRat(7, 10)
MAX_WORKERS == 2
LONG_THRESHOLD == FFromRat(5, 10000)
SHORT_THRESHOLD == FFromRat(-5, 10000)

\* The price series of one timeframe, by what the forecast made from it
\* is: no frame (or an empty one), fewer samples than the window, a
\* forecast that raises (the pipeline is None, or the model fails), and
\* forecasts of +1% at confidence 0.9, -3% at 0.8 and +1% at 0.7.
Series(samples, raises, prediction, confidence) ==
    [samples |-> samples, raises |-> raises,
     prediction |-> prediction, confidence |-> confidence]
NoSeries == Series(0, FALSE, FZero, FZero)
ShortSeries == Series(HISTORICAL_WINDOW - 1, FALSE, FFromRat(1, 100), FFromRat(9, 10))
FailingSeries == Series(HISTORICAL_WINDOW, TRUE, FZero, FZero)
UpSeries == Series(HISTORICAL_WINDOW, FALSE, FFromRat(1, 100), FFromRat(9, 10))
DownSeries == Series(HISTORICAL_WINDOW, FALSE, FFromRat(-3, 100), FFromRat(8, 10))
WeakSeries == Series(HISTORICAL_WINDOW + 1, FALSE, FFromRat(1, 100), FFromRat(7, 10))
SeriesWithData == {ShortSeries, FailingSeries, UpSeries, DownSeries, WeakSeries}

\* at most MaxDispatched timeframes of a ledger carry data
MaxDispatched == 3
HistoricalSeries ==
    {h \in [TimeFrames -> SeriesWithData \cup {NoSeries}] :
        Cardinality({tf \in TimeFrames : h[tf] # NoSeries}) <= MaxDispatched}

TaskResult(timeframe, prediction, confidence) ==
    [timeframe |-> timeframe, prediction |-> prediction, confidence |-> confidence]

predict_single_timeframe_trusting(timeframe, price_series) ==
    IF price_series.samples < HISTORICAL_WINDOW
    THEN TaskResult(timeframe, FZero, FZero)
    ELSE IF price_series.raises
    THEN TaskResult(timeframe, FZero, FFromRat(1, 1))
    ELSE TaskResult(timeframe, price_series.prediction, price_series.confidence)

\* _predict_single_timeframe: the except clause turns an error into (0, 0)
predict_single_timeframe(timeframe, price_series) ==
    IF price_series.samples < HISTORICAL_WINDOW
    THEN TaskResult(timeframe, FZero, FZero)
    ELSE IF price_series.raises
    THEN TaskResult(timeframe, FZero, FZero)
    ELSE TaskResult(timeframe, price_series.prediction, price_series.confidence)

is_retained_at_threshold(res) == FCmp(res.confidence, CONFIDENCE_THRESHOLD) >= 0

\* line 165: confidence > CONFIDENCE_THRESHOLD
is_retained(res) == FCmp(res.confidence, CONFIDENCE_THRESHOLD) > 0

add_result_raw_total(acc, res, weight) ==
    <<FAdd(acc[1], FMul(FMul(res.prediction, res.confidence), weight)),
      FAdd(acc[2], res.confidence)>>

\* lines 171-173
add_result(acc, res, weight) ==
    <<FAdd(acc[1], FMul(FMul(res.prediction, res.confidence), weight)),
      FAdd(acc[2], FMul(res.confidence, weight))>>

\* lines 170-173: <<fused_prediction, total_weight>> after the results
\* 1..n, in the order of the results dictionary
RECURSIVE accumulate(_, _)
accumulate(results, n) ==
    IF n = 0 THEN <<FZero, FZero>>
    ELSE add_result(accumulate(results, n - 1), results[n],
                    TIME_FRAME_WEIGHTS[results[n].timeframe])

\* lines 175-176
normalise(acc) ==
    IF FCmp(acc[2], FZero) > 0 THEN <<FDiv(acc[1], acc[2]), acc[2]>> ELSE acc

\* lines 178-182
decision_of(fused_prediction) ==
    IF FCmp(fused_prediction, LONG_THRESHOLD) > 0 THEN "LONG_ENTRY"
    ELSE IF FCmp(fused_prediction, SHORT_THRESHOLD) < 0 THEN "SHORT_ENTRY"
    ELSE "WAITING"

\* sum(TIME_FRAME_WEIGHTS.values()), in the order of the dictionary
RECURSIVE weight_sum(_)
weight_sum(n) ==
    IF n = 0 THEN FZero ELSE FAdd(weight_sum(n - 1), TIME_FRAME_WEIGHTS[TIME_FRAMES[n]])

PredictionSignal(fused, results) ==
    [fused_prediction_pct |-> FMul(fused[1], FFromRat(100, 1)),
     confidence |-> IF results # << >>
                    THEN FDiv(fused[2], weight_sum(Len(TIME_FRAMES)))
                    ELSE FZero,
     decision |-> decision_of(fused[1])]

\* lines 168-193
fuse(results) == PredictionSignal(normalise(accumulate(results, Len(results))), results)

\* ---- predict_multi_timeframe as a main thread and a pool of workers
Dispatched(f) == {tf \in TimeFrames : f.task[tf] # "none"}
Running(f) == {tf \in TimeFrames : f.task[tf] = "running"}
all_tasks_done(f) == \A tf \in Dispatched(f) : f.task[tf] = "done"

as_completed_eager(f) == TRUE

\* the loop of line 163 ends when every future has been yielded
as_completed_exhausted(f) == f.yielded = Dispatched(f)

FusionInit ==
    /\ LedgerInit
    /\ \E h \in HistoricalSeries :
          fusion = <<[historical_data |-> h, pc |-> "submit", next |-> 1,
                      task |-> [tf \in TimeFrames |-> "none"],
                      queue |-> << >>,
                      future |-> [tf \in TimeFrames |-> << >>],
                      yielded |-> {}, results |-> << >>, signal |-> << >>]>>
    /\ slip = Unused
    /\ sizer = Unused
    /\ single = Unused

FusionUnchanged == UNCHANGED ledger_vars /\ UNCHANGED <<slip, sizer, single>>

\* lines 156-160: one turn of the loop over TIME_FRAMES
Submit ==
    /\ fusion # Unused
    /\ fusion[1].pc = "submit"
    /\ fusion[1].next <= Len(TIME_FRAMES)
    /\ LET timeframe == TIME_FRAMES[fusion[1].next]
       IN  IF fusion[1].historical_data[timeframe] # NoSeries
           THEN fusion' = <<[fusion[1] EXCEPT
                               !.next = @ + 1,
                               !.task[timeframe] = "pending",
                               !.queue = Append(@, timeframe)]>>
           ELSE fusion' = <<[fusion[1] EXCEPT !.next = @ + 1]>>
    /\ FusionUnchanged

\* a worker thread of the pool takes the oldest submitted task
StartTask ==
    /\ fusion # Unused
    /\ fusion[1].queue # << >>
    /\ Cardinality(Running(fusion[1])) < MAX_WORKERS
    /\ fusion' = <<[fusion[1] EXCEPT
                      !.task[Head(fusion[1].queue)] = "running",
                      !.queue = Tail(@)]>>
    /\ FusionUnchanged

\* a task returns: its future holds _predict_single_timeframe's result
FinishTask(timeframe) ==
    /\ fusion # Unused
    /\ fusion[1].task[timeframe] = "running"
    /\ fusion' = <<[fusion[1] EXCEPT
                      !.task[timeframe] = "done",
                      !.future[timeframe] =
                          <<predict_single_timeframe(
                                timeframe, fusion[1].historical_data[timeframe])>>]>>
    /\ FusionUnchanged

\* line 155: leaving the with block shuts the executor down and waits
ExitWith ==
    /\ fusion # Unused
    /\ fusion[1].pc = "submit"
    /\ fusion[1].next > Len(TIME_FRAMES)
    /\ all_tasks_done(fusion[1])
    /\ fusion' = <<[fusion[1] EXCEPT !.pc = "collect"]>>
    /\ FusionUnchanged

\* lines 163-166: as_completed yields a finished future, in any order
CollectResult(timeframe) ==
    /\ fusion # Unused
    /\ fusion[1].pc = "collect"
    /\ fusion[1].task[timeframe] = "done"
    /\ timeframe \notin fusion[1].yielded
    /\ fusion' = <<[fusion[1] EXCEPT
                      !.yielded = @ \cup {timeframe},
                      !.results = IF is_retained(fusion[1].future[timeframe][1])
                                  THEN Append(@, fusion[1].future[timeframe][1])
                                  ELSE @]>>
    /\ FusionUnchanged

\* lines 168-193
Fuse ==
    /\ fusion # Unused
    /\ fusion[1].pc = "collect"
    /\ as_completed_exhausted(fusion[1])
    /\ fusion' = <<[fusion[1] EXCEPT
                      !.pc = "done",
                      !.signal = <<fuse(fusion[1].results)>>]>>
    /\ FusionUnchanged

FusionNext ==
    \/ Submit
    \/ StartTask
    \/ \E timeframe \in TimeFrames : FinishTask(timeframe)
    \/ ExitWith
    \/ \E timeframe \in TimeFrames : CollectResult(timeframe)
    \/ Fuse

FusionSpec == FusionInit /\ [][FusionNext]_vars

\* ---- properties of the fusion
\* the calls of predict_multi_timeframe that have returned their signal
Fused == {fusion[k] : k \in {j \in DOMAIN fusion : fusion[j].pc = "done"}}

\* a series whose forecast is above the confidence threshold
Retainable(series) ==
    /\ series.samples >= HISTORICAL_WINDOW
    /\ ~series.raises
    /\ FCmp(series.confidence, CONFIDENCE_THRESHOLD) > 0

RetainableFrames(f) == {tf \in TimeFrames : Retainable(f.historical_data[tf])}

\* C15: when no timeframe is retained (none has data, or every result has
\* confidence <= 0.7, or the forecast fails for every timeframe), the signal
\* has decision WAITING, confidence 0 and fused_prediction_pct 0.
C15_NothingRetainedWaiting ==
    \A f \in Fused :
        RetainableFrames(f) = {}
            => f.signal = <<[decision |-> "WAITING", confidence |-> FZero,
                             fused_prediction_pct |-> FZero]>>

\* tasks were dispatched, one of them at confidence exactly 0.7, and none
\* of their results was retained
C15_Witness ==
    \E f \in Fused :
        /\ RetainableFrames(f) = {}
        /\ \E tf \in f.yielded : f.historical_data[tf] = WeakSeries
        /\ \E tf \in f.yielded : f.historical_data[tf] = FailingSeries
        /\ f.signal[1].decision = "WAITING"

\* C16: with exactly one timeframe retained, at prediction +0.01 and
\* confidence 0.9, and nothing from the others, the decision is LONG_ENTRY
\* and fused_prediction_pct is 1.0, whichever timeframe it is.
C16_SingleTimeframe ==
    \A f \in Fused : \A tf \in TimeFrames :
        (RetainableFrames(f) = {tf} /\ f.historical_data[tf] = UpSeries)
            => /\ f.signal[1].decision = "LONG_ENTRY"
               /\ f.signal[1].fused_prediction_pct = FFromRat(1, 1)

\* the single retained timeframe is the one of weight 0.25, next to two
\* dispatched timeframes that contribute nothing
C16_Witness ==
    \E f \in Fused :
        /\ RetainableFrames(f) = {"15m"}
        /\ f.historical_data["15m"] = UpSeries
        /\ Cardinality(f.yielded) = 3
        /\ f.signal[1].fused_prediction_pct = FFromRat(1, 1)

\* the results a call would hold had the failing timeframes been discarded
WithoutFailures(f) ==
    SelectSeq(f.results, LAMBDA r : ~f.historical_data[r.timeframe].raises)

\* C17: an error in one timeframe's task becomes the result (0, 0) of that
\* timeframe only: a signal is still returned, and it is the one the other
\* timeframes give with the failing timeframe discarded.
C17_ErrorConfined ==
    /\ \A k \in DOMAIN fusion : \A tf \in TimeFrames :
           (fusion[k].historical_data[tf].raises /\ fusion[k].task[tf] = "done")
               => fusion[k].future[tf] = <<TaskResult(tf, FZero, FZero)>>
    /\ \A f \in Fused : f.signal = <<fuse(WithoutFailures(f))>>

\* a failing timeframe next to a retained one
C17_Witness ==
    \E f \in Fused :
        /\ \E tf \in f.yielded : f.historical_data[tf].raises
        /\ \E tf \in f.yielded : f.historical_data[tf] = DownSeries
        /\ f.signal[1].decision = "SHORT_ENTRY"

\* C19: at most 2 tasks run at a time, the fusion does not start while a
\* dispatched task is pending or running, and the result of every
\* dispatched timeframe has been taken into account when it runs.
C19_FusionAfterAllTasks ==
    \A k \in DOMAIN fusion :
        /\ Cardinality(Running(fusion[k])) <= 2
        /\ fusion[k].pc = "done"
               => /\ fusion[k].next > Len(TIME_FRAMES)
                  /\ all_tasks_done(fusion[k])
                  /\ fusion[k].yielded =
                         {tf \in TimeFrames : fusion[k].historical_data[tf] # NoSeries}
                  /\ {r.timeframe : r \in {fusion[k].results[i] :
                                              i \in DOMAIN fusion[k].results}}
                         = RetainableFrames(fusion[k])

\* three dispatched tasks, all retained
C19_Witness ==
    \E f \in Fused :
        /\ Cardinality(Dispatched(f)) = 3
        /\ Len(f.results) = 3

\* two tasks run while a third one waits for a worker
PoolSaturated ==
    \E k \in DOMAIN fusion :
        /\ Cardinality(Running(fusion[k])) = 2
        /\ fusion[k].queue # << >>

\* ---------------------------------------------------------------------
\* ChronosPredictor.__new__ (chronos_predictor.py lines 46-55): threads
\* that construct the predictor for the first time, one statement a step
\* ---------------------------------------------------------------------

\* the threads that call ChronosPredictor() concurrently
NumThreads == 3
Threads == 1 .. NumThreads

\* line 46: _instance = None; objects are named by positive numbers
NoInstance == 0

\* a thread before the test of line 50
Caller == [pc |-> "outer", raced |-> FALSE, handle |-> NoInstance]

\* line 50: if cls._instance is None
outer_check(s) == s.instance = NoInstance

inner_check_skipped(s) == TRUE

\* line 52: if cls._instance is None, with the lock held
inner_check(s) == s.instance = NoInstance

SingletonInit ==
    /\ LedgerInit
    /\ \E loads \in BOOLEAN :
           single = <<[instance |-> NoInstance,
                       lock |-> 0,
                       objects |-> 0,
                       initialized |-> << >>,
                       loads |-> loads,
                       thread |-> [t \in Threads |-> Caller]]>>
    /\ slip = Unused
    /\ sizer = Unused
    /\ fusion = Unused

SingletonUnchanged == UNCHANGED ledger_vars /\ UNCHANGED <<slip, sizer, fusion>>

\* line 50, the unlocked test
OuterCheck(t) ==
    /\ single # Unused
    /\ single[1].thread[t].pc = "outer"
    /\ single' = <<[single[1] EXCEPT
                      !.thread[t].pc =
                          IF outer_check(single[1]) THEN "lock" ELSE "return",
                      !.thread[t].raced = outer_check(single[1])]>>
    /\ SingletonUnchanged

\* line 51: with cls._lock (blocks while another thread holds it)
AcquireLock(t) ==
    /\ single # Unused
    /\ single[1].thread[t].pc = "lock"
    /\ single[1].lock = 0
    /\ single' = <<[single[1] EXCEPT !.lock = t, !.thread[t].pc = "inner"]>>
    /\ SingletonUnchanged

\* line 52, the test under the lock
InnerCheck(t) ==
    /\ single # Unused
    /\ single[1].thread[t].pc = "inner"
    /\ single' = <<[single[1] EXCEPT
                      !.thread[t].pc =
                          IF inner_check(single[1]) THEN "assign" ELSE "unlock"]>>
    /\ SingletonUnchanged

\* line 53: cls._instance = super().__new__(cls)
AssignInstance(t) ==
    /\ single # Unused
    /\ single[1].thread[t].pc = "assign"
    /\ single' = <<[single[1] EXCEPT
                      !.objects = @ + 1,
                      !.instance = single[1].objects + 1,
                      !.thread[t].pc = "init"]>>
    /\ SingletonUnchanged

\* line 54 and lines 57-78: _initialize_model on the new object; it
\* catches every Exception and leaves pipeline set, to a pipeline or None
InitializeModel(t) ==
    /\ single # Unused
    /\ single[1].thread[t].pc = "init"
    /\ single' = <<[single[1] EXCEPT
                      !.initialized = Append(@,
                          [object |-> single[1].instance,
                           pipeline |-> IF single[1].loads
                                        THEN "pipeline" ELSE "None"]),
                      !.thread[t].pc = "unlock"]>>
    /\ SingletonUnchanged

\* end of the with block of line 51
ReleaseLock(t) ==
    /\ single # Unused
    /\ single[1].thread[t].pc = "unlock"
    /\ single' = <<[single[1] EXCEPT !.lock = 0, !.thread[t].pc = "return"]>>
    /\ SingletonUnchanged

\* line 55: return cls._instance
ReturnInstance(t) ==
    /\ single # Unused
    /\ single[1].thread[t].pc = "return"
    /\ single' = <<[single[1] EXCEPT
                      !.thread[t].handle = single[1].instance,
                      !.thread[t].pc = "done"]>>
    /\ SingletonUnchanged

SingletonNext ==
    \E t \in Threads :
        \/ OuterCheck(t)
        \/ AcquireLock(t)
        \/ InnerCheck(t)
        \/ AssignInstance(t)
        \/ InitializeModel(t)
        \/ ReleaseLock(t)
        \/ ReturnInstance(t)

SingletonSpec == SingletonInit /\ [][SingletonNext]_vars

\* ---- properties of the singleton
\* the threads whose call of ChronosPredictor() has returned
Returned_threads(s) == {t \in Threads : s.thread[t].pc = "done"}

\* C18: under any interleaving of concurrent first calls, _initialize_model
\* runs at most once at every moment and exactly once when the calls have
\* returned, and every caller receives the same single instance.
C18_InitializedOnce ==
    \A k \in DOMAIN single :
        /\ Len(single[k].initialized) <= 1
        /\ single[k].objects <= 1
        /\ \A t \in Returned_threads(single[k]) :
               /\ single[k].thread[t].handle # NoInstance
               /\ single[k].thread[t].handle = single[k].instance
        /\ \A t, u \in Returned_threads(single[k]) :
               single[k].thread[t].handle = single[k].thread[u].handle
        /\ Returned_threads(single[k]) = Threads
               => Len(single[k].initialized) = 1

\* every thread found no instance at line 50 and went through the lock
C18_Witness ==
    \E k \in DOMAIN single :
        /\ Returned_threads(single[k]) = Threads
        /\ \A t \in Threads : single[k].thread[t].raced
        /\ Len(single[k].initialized) = 1

\* C27: no thread obtains the instance before _initialize_model has
\* finished on it: every handle returned by ChronosPredictor() has its
\* pipeline attribute set, to a pipeline or to None.
C27_InitializedBeforeReturn ==
    \A k \in DOMAIN single :
        \A t \in Returned_threads(single[k]) :
            \E i \in DOMAIN single[k].initialized :
                single[k].initialized[i].object = single[k].thread[t].handle

\* ---------------------------------------------------------------------
\* _calculate_slippage (paper_trader.py lines 40-50) on its own: one
\* evaluation for an order size and a snapshot of the feed
\* ---------------------------------------------------------------------

SlipBids == {Zero, R(100), R(110)}
SlipAsks == {R(100), R(110), R(120)}

\* top_5_asks: no level, or a best level at the ask with a quantity
SlipBooks(ask) ==
    {<< >>} \cup {<< <<ask, qty>> >> : qty \in {Zero, One, R(2), R(4)}}

SlipSnapshots ==
    UNION {{MarketData(bid, ask, asks) : asks \in SlipBooks(ask)} :
              bid \in SlipBids, ask \in SlipAsks}

SlipSizes == {Rat(1, 2), One, R(2), R(3)}

SlipInit ==
    /\ LedgerInit
    /\ \E order_size \in SlipSizes, market_data \in SlipSnapshots :
           slip = <<[order_size |-> order_size,
                     market_data |-> market_data,
                     called |-> FALSE,
                     slippage |-> Zero]>>
    /\ sizer = Unused
    /\ fusion = Unused
    /\ single = Unused

\* lines 40-50
CalculateSlippage ==
    /\ slip # Unused
    /\ ~slip[1].called
    /\ slip' = <<[slip[1] EXCEPT
                    !.called = TRUE,
                    !.slippage = calculate_slippage(slip[1].order_size,
                                                    slip[1].market_data)]>>
    /\ UNCHANGED ledger_vars
    /\ UNCHANGED <<sizer, fusion, single>>

SlipNext == CalculateSlippage

SlipSpec == SlipInit /\ [][SlipNext]_vars

\* ---- properties of the slippage
\* no ask level, or a best ask level of quantity 0
NoBookDepth(market_data) ==
    \/ market_data.top_5_asks = << >>
    \/ market_data.top_5_asks[1][2] = Zero

\* the slippage of the execution contract: 0 without a positive spread or
\* without depth, else (ask - bid) x 0.1 x min(order_size / top qty, 1)
ContractSlippage(order_size, market_data) ==
    IF RLe(RSub(market_data.ask, market_data.bid), Zero)
           \/ NoBookDepth(market_data)
    THEN Zero
    ELSE RMul(RMul(RSub(market_data.ask, market_data.bid), SLIPPAGE_FACTOR),
              RMin(RDiv(order_size, market_data.top_5_asks[1][2]), One))

\* C20: for a snapshot with positive prices the slippage is
\* (ask - bid) x 0.1 x min(order_size / top-of-book qty, 1), and it is 0
\* when the spread is <= 0 or the book has no depth (no ask level, or a
\* top-of-book quantity of 0).
C20_SlippageFormula ==
    \A k \in DOMAIN slip :
        (slip[k].called /\ RLt(Zero, slip[k].market_data.bid))
            => slip[k].slippage =
                   ContractSlippage(slip[k].order_size, slip[k].market_data)

\* ---------------------------------------------------------------------
\* check_drawdown (risk_controller.py lines 76-94) on its own: one call
\* for a ledger whose current_drawdown is a given double
\* ---------------------------------------------------------------------

\* the doubles of 0, 0.0005, 0.001, ... up to 0.09
TierGridDoubles == {FFromRat(n, 2000) : n \in 0 .. 180}

\* the doubles next to x (x not a power of 2)
Neighbours(x) ==
    {[x EXCEPT !.m = BAdd(@, <<1>>)], [x EXCEPT !.m = BSub(@, <<1>>)]}

\* the doubles on each side of the doubles of 0.05, 0.06, 0.07 and 0.08
TierEdgeDoubles == UNION {Neighbours(FFromRat(n, 100)) : n \in 5 .. 8}

TierDrawdowns == TierGridDoubles \cup TierEdgeDoubles

TierInit ==
    /\ LedgerInit
    /\ \E drawdown \in TierDrawdowns :
           sizer = <<[drawdown |-> drawdown, called |-> FALSE,
                      dd |-> [factor |-> Zero, hard_stop |-> FALSE]]>>
    /\ slip = Unused
    /\ fusion = Unused
    /\ single = Unused

\* lines 76-94
CheckDrawdown ==
    /\ sizer # Unused
    /\ ~sizer[1].called
    /\ sizer' = <<[sizer[1] EXCEPT
                     !.called = TRUE,
                     !.dd = drawdown_tier(sizer[1].drawdown)]>>
    /\ UNCHANGED ledger_vars
    /\ UNCHANGED <<slip, fusion, single>>

TierNext == CheckDrawdown

TierSpec == TierInit /\ [][TierNext]_vars

\* ---- properties of the drawdown tiers
\* -1, 0, 1 as the value of the double x >= 0 is below, at or above the
\* fraction n / d, compared exactly
FCmpRat(x, n, d) ==
    IF x.m = << >> THEN (IF n = 0 THEN 0 ELSE -1)
    ELSE IF x.e >= 0
    THEN BCmp(BShl(BMulSmall(x.m, d, 0), x.e), BFromInt(n))
    ELSE BCmp(BMulSmall(x.m, d, 0), BShl(BFromInt(n), -x.e))

\* floor((x - 0.05) / 0.01) for 0.05 <= x < 0.08, in exact arithmetic
FloorSteps(x) == Cardinality({j \in 1 .. 2 : FCmpRat(x, 5 + j, 100) >= 0})

\* C23: for a current_drawdown d with 0.05 <= d < 0.08 check_drawdown
\* returns dd_factor = max(0, 1 - (floor((d - 0.05) / 0.01) + 1) x 0.25)
\* and no hard stop, and for d < 0.05 it returns dd_factor = 1.0.
C23_TierFormula ==
    \A k \in DOMAIN sizer :
        sizer[k].called =>
            LET d == sizer[k].drawdown
            IN  /\ (FCmpRat(d, 5, 100) >= 0 /\ FCmpRat(d, 8, 100) < 0)
                       => sizer[k].dd =
                              [factor |-> RMax(Zero,
                                   RSub(One, RMul(R(FloorSteps(d) + 1),
                                                  Rat(25, 100)))),
                               hard_stop |-> FALSE]
                /\ FCmpRat(d, 5, 100) < 0
                       => sizer[k].dd = [factor |-> One, hard_stop |-> FALSE]

\* the double just below that of 0.07 is in the second tier, the double of
\* 0.07 in the third
C23_Witness ==
    \E k \in DOMAIN sizer :
        /\ sizer[k].called
        /\ \/ /\ sizer[k].drawdown = FFromRat(7, 100)
              /\ sizer[k].dd.factor = Rat(25, 100)
           \/ /\ sizer[k].drawdown \in Neighbours(FFromRat(7, 100))
              /\ FCmpRat(sizer[k].drawdown, 7, 100) < 0
              /\ sizer[k].dd.factor = Rat(50, 100)

\* ---------------------------------------------------------------------
\* _calculate_win_rate_and_odds (risk_controller.py lines 38-58) on its
\* own: one call for a trade history
\* ---------------------------------------------------------------------

\* a history of w winning trades, l losing ones and z trades of pnl 0,
\* oldest first, in the order given by first
KellyHistory(w, l, z, first) ==
    IF first = "wins"
    THEN Repeat(ClosedTrade(R(2)), w) \o Repeat(ClosedTrade(R(-1)), l)
             \o Repeat(ClosedTrade(Zero), z)
    ELSE Repeat(ClosedTrade(Zero), z) \o Repeat(ClosedTrade(R(-1)), l)
             \o Repeat(ClosedTrade(R(2)), w)

\* below, at and above the 20 trades of line 44 and the 50 of line 43
KellyHistories ==
    {KellyHistory(w, l, z, first) :
        w \in {0, 5, 10, 19, 20, 30}, l \in {0, 1, 10, 25},
        z \in {0, 10}, first \in {"wins", "losses"}}

KellyInit ==
    /\ LedgerInit
    /\ \E trades \in KellyHistories :
           sizer = <<[trades |-> trades, called |-> FALSE,
                      stats |-> DefaultStats]>>
    /\ slip = Unused
    /\ fusion = Unused
    /\ single = Unused

\* lines 38-58
CalculateWinRateAndOdds ==
    /\ sizer # Unused
    /\ ~sizer[1].called
    /\ sizer' = <<[sizer[1] EXCEPT
                     !.called = TRUE,
                     !.stats = calculate_win_rate_and_odds(sizer[1].trades)]>>
    /\ UNCHANGED ledger_vars
    /\ UNCHANGED <<slip, fusion, single>>

KellyNext == CalculateWinRateAndOdds

KellySpec == KellyInit /\ [][KellyNext]_vars

\* ---- properties of the Kelly statistics
\* the trades considered: the last 50 of the history
Considered(trades) ==
    [k \in 1 .. (IF Len(trades) < 50 THEN Len(trades) ELSE 50) |->
        trades[Len(trades) - (IF Len(trades) < 50 THEN Len(trades) ELSE 50) + k]]

Winners(considered) ==
    {k \in DOMAIN considered : RLt(Zero, considered[k].pnl)}

\* the sum of |pnl| over the trades of index in ks
SumOver(considered, ks) ==
    RSum([k \in DOMAIN considered |->
             IF k \in ks THEN RAbs(considered[k].pnl) ELSE Zero])

\* b = avg_win / avg_loss, infinite when avg_loss is 0
ContractOdds(considered) ==
    LET wins == Winners(considered)
        losses == DOMAIN considered \ wins
        avg_win == RDiv(SumOver(considered, wins), R(Cardinality(wins)))
        avg_loss == RDiv(SumOver(considered, losses), R(Cardinality(losses)))
    IN  IF avg_loss = Zero THEN Infinity ELSE Finite(RDiv(avg_win, avg_loss))

\* C24: when the last 50 trades hold at least 20 trades the statistics are
\* p = (trades with pnl > 0) / (trades considered) and, when there are both
\* winning and other trades, b = avg_win / avg_loss, infinite when avg_loss
\* is 0; with fewer than 20 trades, and only then, they are the defaults
\* p = 0.5, b = 1.0.
C24_KellyStatistics ==
    \A k \in DOMAIN sizer :
        sizer[k].called =>
            LET considered == Considered(sizer[k].trades)
                wins == Winners(considered)
            IN  IF Len(considered) < 20
                THEN sizer[k].stats = DefaultStats
                ELSE /\ sizer[k].stats.win_rate =
                            Rat(Cardinality(wins), Len(considered))
                     /\ (wins # {} /\ wins # DOMAIN considered)
                            => sizer[k].stats.odds = ContractOdds(considered)

\* ---------------------------------------------------------------------
\* The sizing-then-execution loop: calculate_position_size for the ledger
\* at the snapshot's ask, then execute_order for an order of that size
\* when it is positive
\* ---------------------------------------------------------------------

\* the rounds of the loop
MaxRounds == 2

\* a snapshot without spread or book, one with a spread and a best ask of
\* quantity 1, and one without prices
PipelineSnapshots ==
    { MarketData(R(120), R(120), << >>),
      MarketData(R(80), R(100), << <<R(100), One>> >>),
      MarketData(Zero, Zero, << >>) }

\* the histories of the sizing calls, and one trade and 19 winning trades
PipelineHistories ==
    TradeHistories \cup {Repeat(ClosedTrade(R(2)), 1), Repeat(ClosedTrade(R(2)), 19)}

\* the order an entry signal asks for
side_of(signal) == IF signal = "LONG_ENTRY" THEN "BUY" ELSE "SELL"

\* execute_order for an order whose fill is followed by lines 111-117
executed(order, state, market_data) ==
    LET r == fill(order, state, market_data)
    IN  update_risk_metrics(
            record_trade(r.state,
                         Trade(order.symbol, order.side, r.exec_price,
                               order.size, r.pnl, r.commission)))

PipelineInit ==
    /\ LedgerInit
    /\ \E mb \in MarkAndBalance, trades \in PipelineHistories,
          hd \in HistoricalData, sig \in {"LONG_ENTRY", "SHORT_ENTRY"},
          market_data \in PipelineSnapshots :
          sizer = <<[state |-> SizerLedger(mb, trades),
                     initial |-> SizerLedger(mb, trades),
                     historical_data |-> hd,
                     signal |-> sig,
                     market_data |-> market_data,
                     pc |-> "size",
                     round |-> 0,
                     result |-> Returned(Zero),
                     fills |-> << >>]>>
    /\ slip = Unused
    /\ fusion = Unused
    /\ single = Unused

PipelineUnchanged == UNCHANGED ledger_vars /\ UNCHANGED <<slip, fusion, single>>

\* calculate_position_size(state, signal, price) at the snapshot's ask
SizeStep ==
    /\ sizer # Unused
    /\ sizer[1].pc = "size"
    /\ sizer[1].round < MaxRounds
    /\ sizer' = <<[sizer[1] EXCEPT
                     !.pc = "submit",
                     !.result = calculate_position_size(sizer[1].state,
                                    sizer[1].historical_data, sizer[1].signal,
                                    sizer[1].market_data.ask)]>>
    /\ PipelineUnchanged

\* a positive size is submitted: execute_order returns the next ledger; the
\* loop is followed up to its first order
SubmitOrder ==
    /\ sizer # Unused
    /\ sizer[1].pc = "submit"
    /\ ~sizer[1].result.raised
    /\ RLt(Zero, sizer[1].result.size)
    /\ LET order == Order("BTCUSDT", side_of(sizer[1].signal), sizer[1].result.size)
           output == executed(order, sizer[1].state, sizer[1].market_data)
       IN  /\ fill(order, sizer[1].state, sizer[1].market_data).next = "record"
           /\ sizer' = <<[sizer[1] EXCEPT
                            !.pc = "done",
                            !.round = @ + 1,
                            !.state = output,
                            !.fills = Append(@, [order |-> order,
                                                 input |-> sizer[1].state,
                                                 output |-> output])]>>
    /\ PipelineUnchanged

\* no order is submitted for a size of 0
SkipOrder ==
    /\ sizer # Unused
    /\ sizer[1].pc = "submit"
    /\ sizer[1].result.raised \/ RLe(sizer[1].result.size, Zero)
    /\ sizer' = <<[sizer[1] EXCEPT !.pc = "size", !.round = @ + 1]>>
    /\ PipelineUnchanged

PipelineNext == SizeStep \/ SubmitOrder \/ SkipOrder

PipelineSpec == PipelineInit /\ [][PipelineNext]_vars

\* ---- properties of the loop
\* C26: for a ledger whose history holds fewer than 20 trades
\* calculate_position_size returns 0 whatever the signal, price, balance
\* and drawdown, so a loop that submits only orders of positive size and
\* starts from such a history (an empty one included) never executes an
\* order: the ledger stays as it was.
C26_NoFirstOrder ==
    \A k \in DOMAIN sizer :
        Len(sizer[k].initial.trades) < 20 =>
            /\ sizer[k].result = Returned(Zero)
            /\ sizer[k].fills = << >>
            /\ sizer[k].state = sizer[k].initial

\* every round of a loop started at the high-water mark, with an empty
\* history and a positive price, has sized 0 and submitted nothing
C26_Witness ==
    \E k \in DOMAIN sizer :
        /\ sizer[k].initial.trades = << >>
        /\ sizer[k].initial.wallet_balance = R(1000)
        /\ sizer[k].initial.risk_metrics.current_drawdown = Zero
        /\ RLt(Zero, sizer[k].market_data.ask)
        /\ sizer[k].round = MaxRounds
        /\ sizer[k].fills = << >>

\* C28: an order sized by calculate_position_size at the snapshot's ask for
\* a ledger of positive balance, executed as the opening of a new position,
\* leaves a balance that is not negative.
C28_BalanceNotNegative ==
    \A k \in DOMAIN sizer :
        \A i \in DOMAIN sizer[k].fills :
            LET e == sizer[k].fills[i]
            IN  (~HasPosition(e.input, e.order.symbol)
                     /\ RLt(Zero, e.input.wallet_balance))
                    => RLe(Zero, e.output.wallet_balance)

====
